---- MODULE Spec2Model ----
(***************************************************************************)
(* Model of the schema editor of src/frontend/src/components/cpy.js: the   *)
(* tree of field nodes held in the `fields` state of JSONSchemaBuilder,    *)
(* the handlers of SchemaFieldComponent and SchemaBuilder that edit it and *)
(* the serializer convertToJSON.                                           *)
(*                                                                         *)
(* JavaScript strings are sequences of one-character strings, so that      *)
(* String.prototype.trim is computed and not assumed.  An object property  *)
(* that may be missing is a record [tag, ...]: tag "absent" (no own        *)
(* property), "undefined" (own property holding undefined) or a value tag. *)
(***************************************************************************)
EXTENDS Integers, Sequences, FiniteSets, TLC

VARIABLES fields, activeTab, lastOp

vars == <<fields, activeTab, lastOp>>

\* Bound of the model: no field is added to a tree of this many nodes.
MaxNodes == 2

----------------------------------------------------------------------------
\* JavaScript values

\* generateId: Math.random().toString(36).substr(2, 9) is a random string, so
\* each call returns any element of Ids, whatever the calls before returned.
Ids == {"k3f9", "q7zd"}

WhiteSpace == {" ", "\t"}

\* The values of the key input box (editValue) when it is submitted.
EditValues == { <<>>, <<" ", "\t">>, <<" ", "x", "\t">> }

\* The key "__proto__", which a session of SpecProto also submits.
ProtoKey == <<"_", "_", "p", "r", "o", "t", "o", "_", "_">>

Types == {"String", "Number", "Nested"}

Front(s) == SubSeq(s, 1, Len(s) - 1)

Last(s) == s[Len(s)]

\* String.prototype.trim
RECURSIVE trimStart(_)
trimStart(s) ==
    IF s # <<>> /\ Head(s) \in WhiteSpace THEN trimStart(Tail(s)) ELSE s

RECURSIVE trimEnd(_)
trimEnd(s) ==
    IF s # <<>> /\ Last(s) \in WhiteSpace THEN trimEnd(Front(s)) ELSE s

trim(s) == trimEnd(trimStart(s))

\* the children property of a field object
NoChildren == [tag |-> "absent", items |-> <<>>]

UndefinedChildren == [tag |-> "undefined", items |-> <<>>]

ArrayOf(items) == [tag |-> "array", items |-> items]

\* ToBoolean of the children property: an array, even an empty one, is truthy
Truthy(children) == children.tag = "array"

\* the collapsed property: "absent", "false" or "true"; !x of JavaScript
Not(collapsed) == IF collapsed = "true" THEN "false" ELSE "true"

----------------------------------------------------------------------------
\* Utility functions

createNewField(id, type) ==
    [ id        |-> id,
      key       |-> <<>>,
      type      |-> type,
      children  |-> IF type = "Nested" THEN ArrayOf(<<>>) ELSE UndefinedChildren,
      collapsed |-> "false" ]

\* A JavaScript value of the preview: "string", 42 or a plain object.  An
\* object is its own enumerable properties in insertion order (what
\* JSON.stringify and Object.keys read) and its prototype: <<>> stands for
\* Object.prototype, <<o>> for the object o.
StringValue == [kind |-> "string", own |-> <<>>, proto |-> <<>>]

NumberValue == [kind |-> "number", own |-> <<>>, proto |-> <<>>]

EmptyObject == [kind |-> "object", own |-> <<>>, proto |-> <<>>]

\* result[k] = v on a plain object.  "__proto__" is the accessor inherited
\* from Object.prototype: its setter replaces the prototype when v is an
\* object, ignores any other v, and never creates an own property.  Any other
\* key overwrites the own property in place or appends a new one.
Assign(result, k, v) ==
    IF k = ProtoKey
    THEN IF v.kind = "object" THEN [result EXCEPT !.proto = <<v>>] ELSE result
    ELSE IF \E i \in 1..Len(result.own) : result.own[i].k = k
         THEN [result EXCEPT !.own =
                 [i \in 1..Len(result.own) |->
                    IF result.own[i].k = k THEN [k |-> k, v |-> v]
                                           ELSE result.own[i]]]
         ELSE [result EXCEPT !.own = Append(result.own, [k |-> k, v |-> v])]

\* convertToJSON that, like the rendering, skips the children of a collapsed
\* Nested field
RECURSIVE convertToJSONSkippingCollapsed(_)
convertToJSONSkippingCollapsed(fs) ==
    LET RECURSIVE forEach(_, _)
        forEach(i, result) ==
            IF i > Len(fs) THEN result
            ELSE LET field == fs[i] IN
                 forEach(i + 1,
                    IF field.type = "String"
                    THEN Assign(result, field.key, StringValue)
                    ELSE IF field.type = "Number"
                    THEN Assign(result, field.key, NumberValue)
                    ELSE IF field.type = "Nested" /\ Truthy(field.children)
                            /\ field.collapsed # "true"
                    THEN Assign(result, field.key,
                           convertToJSONSkippingCollapsed(field.children.items))
                    ELSE result)
    IN forEach(1, EmptyObject)

RECURSIVE convertToJSON(_)
convertToJSON(fs) ==
    LET RECURSIVE forEach(_, _)
        forEach(i, result) ==
            IF i > Len(fs) THEN result
            ELSE LET field == fs[i] IN
                 forEach(i + 1,
                    IF field.type = "String"
                    THEN Assign(result, field.key, StringValue)
                    ELSE IF field.type = "Number"
                    THEN Assign(result, field.key, NumberValue)
                    ELSE IF field.type = "Nested" /\ Truthy(field.children)
                    THEN Assign(result, field.key,
                                convertToJSON(field.children.items))
                    ELSE result)
    IN forEach(1, EmptyObject)

----------------------------------------------------------------------------
\* The component tree.  A path is the sequence of indices (from 1) leading
\* from the root sequence to a field.

RECURSIVE GetAt(_, _)
GetAt(fs, p) ==
    IF Len(p) = 1 THEN fs[p[1]]
    ELSE GetAt(fs[p[1]].children.items, Tail(p))

\* The fields for which a SchemaFieldComponent is mounted: every root field,
\* and the children of a mounted Nested field that is not collapsed.
RECURSIVE Rendered(_)
Rendered(fs) ==
    UNION { {<<i>>} \cup
            ( IF fs[i].type = "Nested" /\ Truthy(fs[i].children)
                 /\ fs[i].collapsed # "true"
              THEN { <<i>> \o q : q \in Rendered(fs[i].children.items) }
              ELSE {} ) : i \in 1..Len(fs) }

\* the number of nodes of the tree, which MaxNodes bounds
RECURSIVE CountNodes(_)
CountNodes(fs) ==
    IF fs = <<>> THEN 0
    ELSE 1 + CountNodes(Head(fs).children.items) + CountNodes(Tail(fs))

\* filterNotIndex with the test i < index: the elements after index are lost
filterBeforeIndex(s, index) == SubSeq(s, 1, index - 1)

\* Array.prototype.filter((_, i) => i !== index), index counted from 1
RECURSIVE filterNotIndex(_, _)
filterNotIndex(s, index) ==
    IF s = <<>> THEN <<>>
    ELSE IF index = 1 THEN filterNotIndex(Tail(s), 0)
    ELSE <<Head(s)>> \o filterNotIndex(Tail(s), index - 1)

----------------------------------------------------------------------------
\* SchemaBuilder (the root sequence) and SchemaFieldComponent (one field).
\* Each handler is given the root sequence fs and returns the sequence that
\* reaches onFieldsChange (setFields); fs itself when nothing is issued.

handleFieldUpdate(fs, index, updatedField) ==
    [fs EXCEPT ![index] = updatedField]

handleFieldDelete(fs, index) == filterNotIndex(fs, index)

RECURSIVE onUpdate(_, _, _)
RECURSIVE handleNestedFieldUpdate(_, _, _, _)

\* the onUpdate prop of the component at path p
onUpdate(fs, p, updatedField) ==
    IF Len(p) = 1 THEN handleFieldUpdate(fs, p[1], updatedField)
    ELSE handleNestedFieldUpdate(fs, Front(p), Last(p), updatedField)

\* handleNestedFieldUpdate that builds the parent anew from id, key, type and
\* children instead of spreading field: collapsed is lost
handleNestedFieldUpdateNoSpread(fs, p, index, updatedChild) ==
    LET field == GetAt(fs, p) IN
    IF Truthy(field.children)
    THEN onUpdate(fs, p,
           [field EXCEPT !.collapsed = "absent",
                         !.children =
              ArrayOf([field.children.items EXCEPT ![index] = updatedChild])])
    ELSE fs

\* handleNestedFieldUpdate of the component at path p
handleNestedFieldUpdate(fs, p, index, updatedChild) ==
    LET field == GetAt(fs, p) IN
    IF Truthy(field.children)
    THEN onUpdate(fs, p,
           [field EXCEPT !.children =
              ArrayOf([field.children.items EXCEPT ![index] = updatedChild])])
    ELSE fs

handleNestedFieldDelete(fs, p, index) ==
    LET field == GetAt(fs, p) IN
    IF Truthy(field.children)
    THEN onUpdate(fs, p,
           [field EXCEPT !.children =
              ArrayOf(filterNotIndex(field.children.items, index))])
    ELSE fs

\* the onDelete prop of the component at path p
onDelete(fs, p) ==
    IF Len(p) = 1 THEN handleFieldDelete(fs, p[1])
    ELSE handleNestedFieldDelete(fs, Front(p), Last(p))

\* handleKeyUpdate that stores editValue as typed, not trimmed
handleKeyUpdateUntrimmed(fs, p, editValue) ==
    LET field == GetAt(fs, p) IN
    IF trim(editValue) # <<>>
    THEN onUpdate(fs, p, [field EXCEPT !.key = editValue])
    ELSE fs

handleKeyUpdate(fs, p, editValue) ==
    LET field == GetAt(fs, p) IN
    IF trim(editValue) # <<>>
    THEN onUpdate(fs, p, [field EXCEPT !.key = trim(editValue)])
    ELSE fs

\* retype without the two deletes of the else branch
retypeWithoutDelete(field, newType) ==
    IF newType = "Nested"
    THEN [field EXCEPT !.type = newType,
                       !.children = ArrayOf(<<>>),
                       !.collapsed = "false"]
    ELSE [field EXCEPT !.type = newType]

\* retype that keeps the children and collapsed a Nested field already has
retypeKeepingChildren(field, newType) ==
    IF newType = "Nested"
    THEN IF Truthy(field.children)
         THEN [field EXCEPT !.type = newType]
         ELSE [field EXCEPT !.type = newType,
                            !.children = ArrayOf(<<>>),
                            !.collapsed = "false"]
    ELSE [field EXCEPT !.type = newType,
                       !.children = NoChildren,
                       !.collapsed = "absent"]

\* the object handleTypeChange hands to onUpdate
retype(field, newType) ==
    IF newType = "Nested"
    THEN [field EXCEPT !.type = newType,
                       !.children = ArrayOf(<<>>),
                       !.collapsed = "false"]
    ELSE [field EXCEPT !.type = newType,
                       !.children = NoChildren,
                       !.collapsed = "absent"]

handleTypeChange(fs, p, newType) ==
    onUpdate(fs, p, retype(GetAt(fs, p), newType))

handleAddNestedField(fs, p, id) ==
    LET field == GetAt(fs, p) IN
    IF field.type = "Nested"
    THEN onUpdate(fs, p,
           [field EXCEPT !.children =
              ArrayOf(Append(field.children.items,
                             createNewField(id, "String")))])
    ELSE fs

toggleCollapsed(fs, p) ==
    LET field == GetAt(fs, p) IN
    onUpdate(fs, p, [field EXCEPT !.collapsed = Not(field.collapsed)])

addFieldWithType(fs, id, type) == Append(fs, createNewField(id, type))

handleAddField(fs, id) == Append(fs, createNewField(id, "String"))

handleReset(id) == <<createNewField(id, "String")>>

----------------------------------------------------------------------------
\* The editing session

\* lastOp is a history variable.  It records the handler that ran last: its name, the path of the
\* component it belongs to (<<>> for SchemaBuilder and JSONSchemaBuilder),
\* its argument, and the type, collapsed flag and number of children the
\* component's field had when the handler was called.
NoField == [type |-> "", collapsed |-> "", kids |-> 0, sibs |-> 0]

Was(fs, p) ==
    LET field == GetAt(fs, p) IN
    [ type      |-> field.type,
      collapsed |-> field.collapsed,
      kids      |-> Len(field.children.items),
      sibs      |-> IF Len(p) = 1 THEN Len(fs)
                    ELSE Len(GetAt(fs, Front(p)).children.items) ]

Op(name, p, arg, was) == [op |-> name, path |-> p, arg |-> arg, was |-> was]

Init ==
    /\ \E id \in Ids : fields = <<createNewField(id, "String")>>
    /\ activeTab = "builder"
    /\ lastOp = Op("mount", <<>>, <<>>, NoField)

\* SchemaBuilder and its field components are mounted on the builder tab only.
HandleAddField ==
    /\ activeTab = "builder"
    /\ CountNodes(fields) < MaxNodes
    /\ \E id \in Ids : fields' = handleAddField(fields, id)
    /\ lastOp' = Op("handleAddField", <<>>, <<"String">>, NoField)
    /\ UNCHANGED activeTab

AddFieldWithType ==
    /\ activeTab = "builder"
    /\ CountNodes(fields) < MaxNodes
    /\ \E id \in Ids, type \in {"Number", "Nested"} :
          /\ fields' = addFieldWithType(fields, id, type)
          /\ lastOp' = Op("addFieldWithType", <<>>, <<type>>, NoField)
    /\ UNCHANGED activeTab

\* handleKeyUpdate runs when the key input is blurred or Enter is pressed;
\* editValue is whatever was typed into it.
KeyUpdate(values) ==
    /\ activeTab = "builder"
    /\ \E p \in Rendered(fields), editValue \in values :
          /\ fields' = handleKeyUpdate(fields, p, editValue)
          /\ lastOp' = Op("handleKeyUpdate", p, editValue, Was(fields, p))
    /\ UNCHANGED activeTab

HandleKeyUpdate == KeyUpdate(EditValues)

HandleKeyUpdateProto == KeyUpdate({ProtoKey})

\* handleTypeChange has no test of newType against field.type: it is modelled
\* for every option of the select, the selected one included.
HandleTypeChange ==
    /\ activeTab = "builder"
    /\ \E p \in Rendered(fields), newType \in Types :
          /\ fields' = handleTypeChange(fields, p, newType)
          /\ lastOp' = Op("handleTypeChange", p, <<newType>>, Was(fields, p))
    /\ UNCHANGED activeTab

HandleAddNestedField ==
    /\ activeTab = "builder"
    /\ CountNodes(fields) < MaxNodes
    /\ \E p \in Rendered(fields), id \in Ids :
          /\ GetAt(fields, p).type = "Nested"
          /\ fields' = handleAddNestedField(fields, p, id)
          /\ lastOp' = Op("handleAddNestedField", p, <<"String">>,
                          Was(fields, p))
    /\ UNCHANGED activeTab

ToggleCollapsed ==
    /\ activeTab = "builder"
    /\ \E p \in Rendered(fields) :
          /\ GetAt(fields, p).type = "Nested"
          /\ fields' = toggleCollapsed(fields, p)
          /\ lastOp' = Op("toggleCollapsed", p, <<>>, Was(fields, p))
    /\ UNCHANGED activeTab

OnDelete ==
    /\ activeTab = "builder"
    /\ \E p \in Rendered(fields) :
          /\ fields' = onDelete(fields, p)
          /\ lastOp' = Op("onDelete", p, <<>>, Was(fields, p))
    /\ UNCHANGED activeTab

HandleReset ==
    /\ \E id \in Ids : fields' = handleReset(id)
    /\ activeTab' = "builder"
    /\ lastOp' = Op("handleReset", <<>>, <<>>, NoField)

SetActiveTab ==
    /\ \E tab \in {"builder", "json"} :
          /\ activeTab' = tab
          /\ lastOp' = Op("setActiveTab", <<>>, <<tab>>, NoField)
    /\ UNCHANGED fields

Next ==
    \/ HandleAddField
    \/ AddFieldWithType
    \/ HandleKeyUpdate
    \/ HandleTypeChange
    \/ HandleAddNestedField
    \/ ToggleCollapsed
    \/ OnDelete
    \/ HandleReset
    \/ SetActiveTab

Spec == Init /\ [][Next]_vars

\* The same session, in which "__proto__" is also typed as a key.
NextProto ==
    \/ Next
    \/ HandleKeyUpdateProto

SpecProto == Init /\ [][NextProto]_vars

----------------------------------------------------------------------------
\* Vocabulary of the properties

\* every path of the tree, mounted or not
RECURSIVE AllPaths(_)
AllPaths(fs) ==
    UNION { {<<i>>} \cup { <<i>> \o q : q \in AllPaths(fs[i].children.items) }
            : i \in 1..Len(fs) }

\* the sibling sequence that holds the field at path p
SiblingsOf(fs, p) ==
    IF Len(p) = 1 THEN fs ELSE GetAt(fs, Front(p)).children.items

\* every sibling sequence of the tree: the root and each array of children
SiblingSeqs(fs) ==
    {fs} \cup { GetAt(fs, p).children.items :
                  p \in { q \in AllPaths(fs) : Truthy(GetAt(fs, q).children) } }

IsBlank(s) == \A i \in 1..Len(s) : s[i] \in WhiteSpace

\* s without its leading and trailing white space, for s not blank
Stripped(s) ==
    LET solid == { i \in 1..Len(s) : s[i] \notin WhiteSpace }
        lo == CHOOSE i \in solid : \A j \in solid : i <= j
        hi == CHOOSE i \in solid : \A j \in solid : j <= i
    IN [ i \in 1..(hi - lo + 1) |-> s[lo + i - 1] ]

\* C1: no two nodes of the tree, at any depth, have the same id.
UniqueIds ==
    \A p, q \in AllPaths(fields) :
       p # q => GetAt(fields, p).id # GetAt(fields, q).id

\* C2: every node of the tree, at every depth, has a children sequence if
\* and only if its type is Nested, and a field that was just retyped to
\* String or Number has no children.
ChildrenIffNested ==
    /\ \A p \in AllPaths(fields) :
          LET field == GetAt(fields, p) IN
          /\ Truthy(field.children) <=> field.type = "Nested"
          /\ field.type # "Nested" => field.children.items = <<>>
    /\ ( lastOp.op = "handleTypeChange" /\ lastOp.arg # <<"Nested">> )
          => ~Truthy(GetAt(fields, lastOp.path).children)

\* a Nested field with children was just retyped to String or Number
RetypedNestedToPrimitive ==
    /\ lastOp.op = "handleTypeChange"
    /\ lastOp.was.type = "Nested"
    /\ lastOp.was.kids > 0
    /\ lastOp.arg \in {<<"String">>, <<"Number">>}
    /\ GetAt(fields, lastOp.path).type \in {"String", "Number"}

\* The document as a mapping: the keys of a plain object and the value of one.
KeysOf(doc) == { doc.own[i].k : i \in 1..Len(doc.own) }

ValueOf(doc, k) ==
    doc.own[CHOOSE i \in 1..Len(doc.own) : doc.own[i].k = k].v

\* the index of the last sibling that carries key k
LastWith(sibs, k) ==
    CHOOSE i \in 1..Len(sibs) :
       /\ sibs[i].key = k
       /\ \A j \in 1..Len(sibs) : sibs[j].key = k => j <= i

\* C3: for every sibling sequence of the tree, convertToJSON returns the
\* mapping whose keys are the distinct keys of the siblings, each key with
\* the value of the last sibling that carries it: "string" for a String
\* node, 42 for a Number node, convertToJSON(children) for a Nested node.
SerializeLastWriteWins ==
    \A sibs \in SiblingSeqs(fields) :
       LET doc == convertToJSON(sibs) IN
       /\ KeysOf(doc) = { sibs[i].key : i \in 1..Len(sibs) }
       /\ \A i, j \in 1..Len(doc.own) : doc.own[i].k = doc.own[j].k => i = j
       /\ \A k \in KeysOf(doc) :
             LET field == sibs[LastWith(sibs, k)] IN
             ValueOf(doc, k) =
                IF field.type = "String" THEN StringValue
                ELSE IF field.type = "Number" THEN NumberValue
                ELSE convertToJSON(field.children.items)

\* C4: a rename whose submitted value is empty or only white space leaves
\* the whole tree unchanged; any other rename sets the key of the field to
\* the value without its leading and trailing white space and leaves the
\* id, type, children and collapsed of the field unchanged.
RenameContract ==
    [][ lastOp'.op = "handleKeyUpdate" =>
          LET p == lastOp'.path
              v == lastOp'.arg
          IN IF IsBlank(v)
             THEN fields' = fields
             ELSE /\ GetAt(fields', p).key = Stripped(v)
                  /\ GetAt(fields', p).id = GetAt(fields, p).id
                  /\ GetAt(fields', p).type = GetAt(fields, p).type
                  /\ GetAt(fields', p).children = GetAt(fields, p).children
                  /\ GetAt(fields', p).collapsed = GetAt(fields, p).collapsed
      ]_vars

\* a field named "x" by a padded value has just had a blank rename rejected
RenameRejectedOnNamedField ==
    /\ lastOp.op = "handleKeyUpdate"
    /\ lastOp.arg = <<" ", "\t">>
    /\ GetAt(fields, lastOp.path).key = <<"x">>

\* C5: toggling the collapsed flag of a Nested field leaves its children and
\* the serialization of the root sequence unchanged.
CollapseInvisible ==
    [][ lastOp'.op = "toggleCollapsed" =>
          /\ GetAt(fields', lastOp'.path).children
                = GetAt(fields, lastOp'.path).children
          /\ GetAt(fields', lastOp'.path).collapsed
                # GetAt(fields, lastOp'.path).collapsed
          /\ convertToJSON(fields') = convertToJSON(fields)
      ]_vars

\* a Nested field with children has just been collapsed
CollapsedWithChildren ==
    /\ lastOp.op = "toggleCollapsed"
    /\ lastOp.was.kids > 0
    /\ GetAt(fields, lastOp.path).collapsed = "true"
    /\ convertToJSON(fields).own # <<>>

\* C6: retyping a field of any prior type to Nested keeps its id and key and
\* gives it type Nested, no children and collapsed false.
RetypeToNestedResets ==
    [][ ( lastOp'.op = "handleTypeChange" /\ lastOp'.arg = <<"Nested">> ) =>
          LET old == GetAt(fields, lastOp'.path)
              new == GetAt(fields', lastOp'.path)
          IN /\ new.id = old.id
             /\ new.key = old.key
             /\ new.type = "Nested"
             /\ new.children = ArrayOf(<<>>)
             /\ new.collapsed = "false"
      ]_vars

\* a collapsed Nested field with children has just been retyped to Nested
RetypedCollapsedNestedToNested ==
    /\ lastOp.op = "handleTypeChange"
    /\ lastOp.arg = <<"Nested">>
    /\ lastOp.was.type = "Nested"
    /\ lastOp.was.kids > 0
    /\ lastOp.was.collapsed = "true"
    /\ GetAt(fields, lastOp.path).children = ArrayOf(<<>>)

\* Deep equality of two field objects: the same own properties that hold a
\* value other than undefined, with the same values.
DeepEqual(a, b) ==
    /\ a.id = b.id
    /\ a.key = b.key
    /\ a.type = b.type
    /\ Truthy(a.children) = Truthy(b.children)
    /\ a.children.items = b.children.items
    /\ a.collapsed = b.collapsed

\* C7: retyping a String or Number field of the tree to the type it has
\* returns a field deep-equal to it.
NoOpRetypeIsIdentity ==
    \A p \in AllPaths(fields) :
       LET field == GetAt(fields, p) IN
       field.type \in {"String", "Number"}
          => DeepEqual(retype(field, field.type), field)

\* C8: adding a field, at the root or in a Nested field, yields the old
\* sibling sequence followed by one node with the empty key and the requested
\* type, whose children is the empty sequence iff the type is Nested and
\* whose collapsed is defined, and false, iff the type is Nested.
AddFieldContract ==
    [][ lastOp'.op \in {"handleAddField", "addFieldWithType",
                        "handleAddNestedField"} =>
          LET p == lastOp'.path
              kind == lastOp'.arg[1]
              old == IF p = <<>> THEN fields
                     ELSE GetAt(fields, p).children.items
              new == IF p = <<>> THEN fields'
                     ELSE GetAt(fields', p).children.items
              node == Last(new)
          IN /\ Len(new) = Len(old) + 1
             /\ Front(new) = old
             /\ node.key = <<>>
             /\ node.type = kind
             /\ node.children = ArrayOf(<<>>) <=> kind = "Nested"
             /\ node.collapsed = "false" <=> kind = "Nested"
             /\ node.collapsed = "absent" <=> kind # "Nested"
      ]_vars

RECURSIVE OnlyAlong(_, _, _)
OnlyAlong(s, t, p) ==
    /\ Len(t) = Len(s)
    /\ \A i \in 1..Len(s) : i # p[1] => t[i] = s[i]
    /\ Len(p) > 1 =>
          /\ t[p[1]].id = s[p[1]].id
          /\ t[p[1]].key = s[p[1]].key
          /\ t[p[1]].type = s[p[1]].type
          /\ t[p[1]].collapsed = s[p[1]].collapsed
          /\ t[p[1]].children.tag = s[p[1]].children.tag
          /\ OnlyAlong(s[p[1]].children.items, t[p[1]].children.items,
                       Tail(p))

====
